---- MODULE Spec2Model ----
(***************************************************************************)
(* Model of the AI OpenAPI generator backend (backend/app.py and           *)
(* backend/core/*.py): path normalisation, snippet reading, specification  *)
(* assembly, pattern search, route extraction and the /generate            *)
(* orchestrator.                                                           *)
(*                                                                         *)
(* Strings are sequences of one-character strings.  The character "a" and  *)
(* "b" stand for the word class [A-Za-z0-9_], "-" for any other literal    *)
(* character and " " for whitespace.                                       *)
(***************************************************************************)
EXTENDS Integers, Sequences, FiniteSets, TLC

VARIABLES
    \* path normaliser (core/normalize.py)
    raw_path,   \* the raw path handed to normalize_path
    segs,       \* the segments raw was written from (<<>>: free text)
    norm,       \* normalize_path(raw)
    renorm,     \* normalize_path(norm)
    params,     \* extract_path_params(norm)
    ppc,        \* "idle", "raw", "norm", "renorm" or "params"
    \* snippet reader (core/reader.py)
    nlines,     \* len(lines) of the file read
    center,     \* center_line
    radius,     \* radius
    snippet,    \* <<>> or <<Snippet>>
    \* specification assembler (core/spec.py)
    doc,        \* the document passed to merge_route / _downgrade_schemas
    mergeLog,   \* the routes passed to merge_route so far, in call order
    dpc,        \* "idle", "open", "downgraded" or "raised"
    \* POST /generate (app.py)
    pc,             \* the step post_generate is at
    api_key,        \* whether GEMINI_API_KEY is set
    max_routes,     \* req.options.max_routes
    plan,           \* None or Some(number of planned queries)
    matches,        \* the local variable matches: query index -> match count
    used_fallback,  \* the local variable used_fallback
    searchLog,      \* the multi_search calls made: query set and result
    extractArg,     \* None or Some(the matches handed to extract_routes)
    routes,         \* the DiscoveredRoutes returned by extract_routes
    ridx,           \* index of the next route of the loop
    enrichLog,      \* the enrich_route calls made: completion and result
    valid,          \* outcomes of the validate_openapi calls, in order
    downgrades,     \* number of _downgrade_schemas calls
    notes_extra,    \* the local variable notes_extra
    persisted,      \* None or Some(document written by export_spec)
    out_file,       \* openapi.generated.json: "absent", "partial", "complete"
    response,       \* None or Some(GenerateResponse returned)
    error,          \* None or Some(HTTPException raised)
    \* pattern searcher (core/searcher.py)
    repo_dir,   \* the entries glob can return, in directory order
    queries,    \* the SearchQuery list handed to multi_search
    context,    \* context
    limit,      \* limit
    results,    \* the local variable results: query index -> matches
    scanLog,    \* per query handled, the _grep_file calls made for it
    spc,        \* "idle", "loop", "done" or "raised"
    \* route extractor (core/llm.py)
    completion, \* the completion gemini_json gets inside extract_routes
    extracted,  \* None or Some(what extract_routes returned or raised)
    xpc         \* "idle", "call" or "returned"

pathVars == <<raw_path, segs, norm, renorm, params, ppc>>
snipVars == <<nlines, center, radius, snippet>>
docVars == <<doc, mergeLog, dpc>>
orchVars == <<pc, api_key, max_routes, plan, matches, used_fallback, searchLog,
              extractArg, routes, ridx, enrichLog, valid, downgrades,
              notes_extra, persisted, out_file, response, error>>
srchVars == <<repo_dir, queries, context, limit, results, scanLog, spc>>
xtrVars == <<completion, extracted, xpc>>
vars == <<pathVars, snipVars, docVars, orchVars, srchVars, xtrVars>>

\* Optional values: None is <<>>, a present value v is <<v>>.
None == <<>>

Some(v) == <<v>>

Max(a, b) == IF a >= b THEN a ELSE b

Min(a, b) == IF a <= b THEN a ELSE b

\* ------------------------------------------------------------------------
\* Bounds of the model
\* ------------------------------------------------------------------------
MaxLen == 5
MaxSegs == 3
MaxLines == 4
MaxCenter == 7
MaxRadius == 3
MaxMerges == 2
MaxQueries == 2
MaxHits == 1
MaxRoutes == 2
MaxFiles == 2
MaxLimit == 2
MaxItems == 3

\* ------------------------------------------------------------------------
\* Characters
\* ------------------------------------------------------------------------
Alphabet == {"/", ":", "<", ">", "{", "}", "a", "-", " "}

WordChars == {"a", "b"}

SpaceChars == {" "}

\* All strings over S of length at most n.
StringsUpTo(S, n) == UNION {[1..k -> S] : k \in 0..n}

\* ------------------------------------------------------------------------
\* core/normalize.py
\* ------------------------------------------------------------------------

\* str.strip(): drop leading and trailing whitespace.
RECURSIVE LStrip(_)
LStrip(s) ==
    IF s # <<>> /\ Head(s) \in SpaceChars THEN LStrip(Tail(s)) ELSE s

RECURSIVE RStrip(_)
RStrip(s) ==
    IF s # <<>> /\ s[Len(s)] \in SpaceChars
    THEN RStrip(SubSeq(s, 1, Len(s) - 1))
    ELSE s

Strip(s) == RStrip(LStrip(s))

\* Smallest index j >= i with s[j] \in C, or 0 when there is none.
RECURSIVE FirstIndex(_, _, _)
FirstIndex(s, i, C) ==
    IF i > Len(s) THEN 0
    ELSE IF s[i] \in C THEN i
    ELSE FirstIndex(s, i + 1, C)

\* Last index of the maximal run of characters of C that starts at i
\* (s[i] \in C is assumed).
RECURSIVE RunEnd(_, _, _)
RunEnd(s, i, C) ==
    IF i + 1 <= Len(s) /\ s[i + 1] \in C THEN RunEnd(s, i + 1, C) ELSE i

Brace(name) == <<"{">> \o name \o <<"}">>

\* re.sub(r":([A-Za-z0-9_]+)", r"{\1}", p), scanning from index i.
RECURSIVE SubColon(_, _)
SubColon(s, i) ==
    IF i > Len(s) THEN <<>>
    ELSE IF s[i] = ":" /\ i + 1 <= Len(s) /\ s[i + 1] \in WordChars
    THEN LET e == RunEnd(s, i + 1, WordChars)
         IN  Brace(SubSeq(s, i + 1, e)) \o SubColon(s, e + 1)
    ELSE <<s[i]>> \o SubColon(s, i + 1)

\* re.sub(r"<[^:>]*:([^>]+)>", r"{\1}", p), scanning from index i.
\* [^:>]* stops at the first ':' or '>' after '<', which must be ':';
\* [^>]+ then runs to the first '>' and must not be empty.
RECURSIVE SubTyped(_, _)
SubTyped(s, i) ==
    IF i > Len(s) THEN <<>>
    ELSE LET j == IF s[i] = "<" THEN FirstIndex(s, i + 1, {":", ">"}) ELSE 0
             k == IF j # 0 /\ s[j] = ":" THEN FirstIndex(s, j + 1, {">"}) ELSE 0
         IN  IF k # 0 /\ k > j + 1
             THEN Brace(SubSeq(s, j + 1, k - 1)) \o SubTyped(s, k + 1)
             ELSE <<s[i]>> \o SubTyped(s, i + 1)

\* re.sub(r"<([^>]+)>", r"{\1}", p), scanning from index i.
RECURSIVE SubAngle(_, _)
SubAngle(s, i) ==
    IF i > Len(s) THEN <<>>
    ELSE LET k == IF s[i] = "<" THEN FirstIndex(s, i + 1, {">"}) ELSE 0
         IN  IF k # 0 /\ k > i + 1
             THEN Brace(SubSeq(s, i + 1, k - 1)) \o SubAngle(s, k + 1)
             ELSE <<s[i]>> \o SubAngle(s, i + 1)

\* Variant of CollapseSlashes: only pairs collapse (r"//" for r"//+").
RECURSIVE CollapseSlashPairs(_, _)
CollapseSlashPairs(s, i) ==
    IF i > Len(s) THEN <<>>
    ELSE IF s[i] = "/" /\ i + 1 <= Len(s) /\ s[i + 1] = "/"
    THEN <<"/">> \o CollapseSlashPairs(s, i + 2)
    ELSE <<s[i]>> \o CollapseSlashPairs(s, i + 1)

\* re.sub(r"//+", "/", p), scanning from index i.
RECURSIVE CollapseSlashes(_, _)
CollapseSlashes(s, i) ==
    IF i > Len(s) THEN <<>>
    ELSE IF s[i] = "/" /\ i + 1 <= Len(s) /\ s[i + 1] = "/"
    THEN <<"/">> \o CollapseSlashes(s, RunEnd(s, i, {"/"}) + 1)
    ELSE <<s[i]>> \o CollapseSlashes(s, i + 1)

\* p = raw.strip(); if not p.startswith("/"): p = "/" + p
LeadingSlash(raw) ==
    LET p == Strip(raw)
    IN  IF p # <<>> /\ Head(p) = "/" THEN p ELSE <<"/">> \o p

normalize_path(raw) ==
    LET p0 == LeadingSlash(raw)
        p1 == SubColon(p0, 1)
        p2 == SubTyped(p1, 1)
        p3 == SubAngle(p2, 1)
    IN  CollapseSlashes(p3, 1)

\* Variant of ParamNames: the names are collected right to left.
RECURSIVE ParamNamesReversed(_, _)
ParamNamesReversed(s, i) ==
    IF i > Len(s) THEN <<>>
    ELSE LET k == IF s[i] = "{" THEN FirstIndex(s, i + 1, {"}"}) ELSE 0
         IN  IF k # 0 /\ k > i + 1
             THEN ParamNamesReversed(s, k + 1) \o <<SubSeq(s, i + 1, k - 1)>>
             ELSE ParamNamesReversed(s, i + 1)

\* _PARAM_RE.findall(path) with _PARAM_RE = r"{([^}]+)}", scanning from i.
RECURSIVE ParamNames(_, _)
ParamNames(s, i) ==
    IF i > Len(s) THEN <<>>
    ELSE LET k == IF s[i] = "{" THEN FirstIndex(s, i + 1, {"}"}) ELSE 0
         IN  IF k # 0 /\ k > i + 1
             THEN <<SubSeq(s, i + 1, k - 1)>> \o ParamNames(s, k + 1)
             ELSE ParamNames(s, i + 1)

ParamDescriptor(n) ==
    [name |-> n, in |-> "path", required |-> TRUE, schema |-> [type |-> "string"]]

extract_path_params(path) ==
    LET names == ParamNames(path, 1)
    IN  [x \in 1..Len(names) |-> ParamDescriptor(names[x])]

\* ------------------------------------------------------------------------
\* Raw paths written from segments
\* ------------------------------------------------------------------------
Names == {<<"a">>, <<"b", "a">>}

SegKinds == {"lit", "colon", "angle", "typed", "brace"}

Segments == [kind : SegKinds, name : Names, type : {<<"a">>}]

RenderSeg(g) ==
    CASE g.kind = "lit"   -> g.name
      [] g.kind = "colon" -> <<":">> \o g.name
      [] g.kind = "angle" -> <<"<">> \o g.name \o <<">">>
      [] g.kind = "typed" -> <<"<">> \o g.type \o <<":">> \o g.name \o <<">">>
      [] g.kind = "brace" -> Brace(g.name)

RECURSIVE Render(_)
Render(gs) ==
    IF gs = <<>> THEN <<>>
    ELSE <<"/">> \o RenderSeg(Head(gs)) \o Render(Tail(gs))

\* The canonical template of a segment list: every parameter in brace form.
BraceForm(gs) ==
    Render([x \in 1..Len(gs) |->
              IF gs[x].kind = "lit" THEN gs[x]
              ELSE [gs[x] EXCEPT !.kind = "brace"]])

SegNames(gs) ==
    LET ps == SelectSeq(gs, LAMBDA g : g.kind # "lit")
    IN  [x \in 1..Len(ps) |-> ps[x].name]

SegLists == UNION {[1..k -> Segments] : k \in 1..MaxSegs}

\* ------------------------------------------------------------------------
\* Specification SpecPath: normalize_path and extract_path_params applied
\* to bounded raw paths
\* ------------------------------------------------------------------------
PathIdle ==
    /\ raw_path = <<>> /\ segs = <<>> /\ norm = <<>> /\ renorm = <<>>
    /\ params = <<>> /\ ppc = "idle"

InitPath ==
    /\ \/ raw_path \in StringsUpTo(Alphabet, MaxLen) /\ segs = <<>>
       \/ segs \in SegLists /\ raw_path = Render(segs)
    /\ norm = <<>> /\ renorm = <<>> /\ params = <<>>
    /\ ppc = "raw"

Normalize ==
    /\ ppc = "raw"
    /\ norm' = normalize_path(raw_path)
    /\ ppc' = "norm"
    /\ UNCHANGED <<raw_path, segs, renorm, params>>
    /\ UNCHANGED <<snipVars, docVars, orchVars, srchVars, xtrVars>>

Renormalize ==
    /\ ppc = "norm"
    /\ renorm' = normalize_path(norm)
    /\ ppc' = "renorm"
    /\ UNCHANGED <<raw_path, segs, norm, params>>
    /\ UNCHANGED <<snipVars, docVars, orchVars, srchVars, xtrVars>>

ExtractParams ==
    /\ ppc = "norm"
    /\ params' = extract_path_params(norm)
    /\ ppc' = "params"
    /\ UNCHANGED <<raw_path, segs, norm, renorm>>
    /\ UNCHANGED <<snipVars, docVars, orchVars, srchVars, xtrVars>>

\* ------------------------------------------------------------------------
\* core/reader.py
\* ------------------------------------------------------------------------

\* lines[a:b] for 0 <= a and 0 <= b, as the sequence of 1-based line numbers.
Slice(n, a, b) ==
    LET hi == Min(b, n)
    IN  [x \in 1..Max(0, hi - a) |-> a + x]

read_snippet(n, c, r) ==
    LET start == Max(1, c - r)
        end == Min(n, c + r)
    IN  [start |-> start, end |-> end, text |-> Slice(n, start - 1, end)]

SnipIdle ==
    /\ nlines = 0 /\ center = 0 /\ radius = 0 /\ snippet = None

InitSnippet ==
    /\ nlines \in 0..MaxLines
    /\ center \in 0..MaxCenter
    /\ radius \in 0..MaxRadius
    /\ snippet = None

ReadSnippet ==
    /\ snippet = None
    /\ snippet' = Some(read_snippet(nlines, center, radius))
    /\ UNCHANGED <<nlines, center, radius>>
    /\ UNCHANGED <<pathVars, docVars, orchVars, srchVars, xtrVars>>

\* ------------------------------------------------------------------------
\* core/spec.py
\* ------------------------------------------------------------------------

\* JSON null (Python None) where a JSON object is expected.
JsonNull == [null |-> TRUE]

\* {"type": "object", "additionalProperties": True}
Permissive == [type |-> "object", additionalProperties |-> TRUE]

\* str.lower() and str.upper() on the method spellings of the model.
Lower(m) ==
    CASE m \in {"get", "GET", "Get"} -> "get"
      [] m \in {"post", "POST"} -> "post"
      [] m \in {"all", "ALL"} -> "all"
      [] OTHER -> m

Upper(m) ==
    CASE m \in {"get", "GET", "Get"} -> "GET"
      [] m \in {"post", "POST"} -> "POST"
      [] m \in {"all", "ALL"} -> "ALL"
      [] OTHER -> m

JsonContent(schema) == "application/json" :> [schema |-> schema]

\* The document keeps Python's dict order: order lists the (path, method)
\* keys of paths by first insertion.
build_openapi_skeleton ==
    [openapi |-> "3.0.3", servers |-> <<"http://localhost">>,
     paths |-> <<>>, order |-> <<>>]

ensure_path(spec, path) ==
    IF path \in DOMAIN spec.paths THEN spec
    ELSE [spec EXCEPT !.paths = @ @@ (path :> <<>>)]

\* Variant of default_response: the response carries no content.
default_response_bare == [description |-> "OK"]

\* _default_response()
default_response == [description |-> "OK", content |-> JsonContent(Permissive)]

\* The entry dict merge_route builds for a route.
operation_entry(route) ==
    LET path == route.path
        method == Lower(route.method)
        base == [summary |-> IF route.summary # None /\ route.summary[1] # <<>>
                             THEN route.summary[1]
                             ELSE <<Upper(method), " ">> \o path,
                 parameters |-> route.parameters,
                 responses |-> IF route.responses # <<>> THEN route.responses
                               ELSE "200" :> default_response]
    IN  IF route.requestBody # None
        THEN base @@ [requestBody |->
                        [required |-> FALSE,
                         content |-> JsonContent(route.requestBody[1])]]
        ELSE base

\* Variant of merge_route: an existing operation is kept (setdefault).
merge_route_keep_first(spec, route) ==
    LET path == route.path
        method == Lower(route.method)
        s1 == ensure_path(spec, path)
    IN  IF method \in DOMAIN s1.paths[path] THEN s1
        ELSE [s1 EXCEPT !.paths[path] = (method :> operation_entry(route)) @@ @,
                        !.order = Append(@, <<path, method>>)]

\* merge_route: spec["paths"][path][method.lower()] = entry
merge_route(spec, route) ==
    LET path == route.path
        method == Lower(route.method)
        s1 == ensure_path(spec, path)
    IN  [s1 EXCEPT !.paths[path] = (method :> operation_entry(route)) @@ @,
                   !.order = IF \E x \in 1..Len(@) : @[x] = <<path, method>>
                             THEN @ ELSE Append(@, <<path, method>>)]

\* The (path, method) keys in the order the nested loops of
\* _downgrade_schemas visit them: paths by first insertion, and the methods
\* of one path by first insertion.
RECURSIVE IterOrder(_)
IterOrder(order) ==
    IF order = <<>> THEN <<>>
    ELSE LET p == Head(order)[1]
         IN  SelectSeq(order, LAMBDA k : k[1] = p)
             \o IterOrder(SelectSeq(order, LAMBDA k : k[1] # p))

\* The body of the inner loop for one operation: [raised, op].
\* The response maps of the model hold at most one status code.
downgrade_operation(op) ==
    LET op1 == IF "requestBody" \in DOMAIN op
               THEN [op EXCEPT !.requestBody.content["application/json"].schema
                                   = Permissive]
               ELSE op
        codes == DOMAIN op1.responses
    IN  IF \E c \in codes : op1.responses[c] = JsonNull
        THEN [raised |-> TRUE, op |-> op1]
        ELSE [raised |-> FALSE,
              op |-> [op1 EXCEPT !.responses =
                        [c \in codes |->
                           IF /\ "content" \in DOMAIN op1.responses[c]
                              /\ "application/json"
                                   \in DOMAIN op1.responses[c].content
                           THEN [op1.responses[c] EXCEPT
                                   !.content["application/json"].schema
                                       = Permissive]
                           ELSE op1.responses[c]]]]

\* The loops of _downgrade_schemas over keys; an exception stops them and
\* leaves the operations visited so far rewritten.
RECURSIVE DowngradeFrom(_, _)
DowngradeFrom(spec, keys) ==
    IF keys = <<>> THEN [raised |-> FALSE, spec |-> spec]
    ELSE LET p == Head(keys)[1]
             m == Head(keys)[2]
             r == downgrade_operation(spec.paths[p][m])
             s1 == [spec EXCEPT !.paths[p][m] = r.op]
         IN  IF r.raised THEN [raised |-> TRUE, spec |-> s1]
             ELSE DowngradeFrom(s1, Tail(keys))

downgrade_schemas(spec) == DowngradeFrom(spec, IterOrder(spec.order))

\* ------------------------------------------------------------------------
\* Specification SpecDoc: merge_route and _downgrade_schemas on a document
\* ------------------------------------------------------------------------
SchemaBad == [type |-> "strng"]

DocPaths == {<<"/", "a">>, <<"/", "{", "a", "}">>}

DocMethods == {"get", "GET", "post"}

\* requestBody, responses and summary of the route definitions merged.
Payloads ==
    { [requestBody |-> None, responses |-> <<>>, summary |-> None],
      [requestBody |-> None, responses |-> "200" :> [description |-> "OK"],
       summary |-> Some(<<"s">>)],
      [requestBody |-> Some(SchemaBad),
       responses |-> "200" :> [description |-> "OK",
                               content |-> JsonContent(SchemaBad)],
       summary |-> Some(<<"s">>)],
      [requestBody |-> Some(SchemaBad),
       responses |-> "200" :> [description |-> "OK", schema |-> SchemaBad],
       summary |-> None],
      [requestBody |-> None,
       responses |-> "404" :> [description |-> "Not found"],
       summary |-> Some(<<>>)],
      [requestBody |-> Some(SchemaBad), responses |-> "200" :> JsonNull,
       summary |-> None] }

RouteDef(method, path, payload) ==
    [method |-> method, path |-> path,
     parameters |-> extract_path_params(path),
     requestBody |-> payload.requestBody,
     responses |-> payload.responses,
     evidence |-> [file |-> "app.js", line |-> 1, quotes |-> <<>>],
     summary |-> payload.summary,
     auth |-> None]

DocRoutes ==
    {RouteDef(m, p, y) : m \in DocMethods, p \in DocPaths, y \in Payloads}

DocIdle ==
    /\ doc = build_openapi_skeleton /\ mergeLog = <<>> /\ dpc = "idle"

InitDoc ==
    /\ doc = build_openapi_skeleton
    /\ mergeLog = <<>>
    /\ dpc = "open"

MergeRoute ==
    /\ dpc = "open"
    /\ Len(mergeLog) < MaxMerges
    /\ \E route \in DocRoutes :
          /\ doc' = merge_route(doc, route)
          /\ mergeLog' = Append(mergeLog, route)
    /\ UNCHANGED dpc
    /\ UNCHANGED <<pathVars, snipVars, orchVars, srchVars, xtrVars>>

DowngradeSchemas ==
    /\ dpc = "open"
    /\ LET r == downgrade_schemas(doc)
       IN  /\ doc' = r.spec
           /\ dpc' = IF r.raised THEN "raised" ELSE "downgraded"
    /\ UNCHANGED mergeLog
    /\ UNCHANGED <<pathVars, snipVars, orchVars, srchVars, xtrVars>>

\* ------------------------------------------------------------------------
\* core/searcher.py
\* ------------------------------------------------------------------------

\* A line either declares a route or is other text.
LineKinds == {"route", "text"}

\* The regexes of the model: "route" stands for a pattern that matches the
\* route lines only, "." matches every line, "(" does not compile.
Regexes == {"route", ".", "("}

\* re.compile(regex, re.IGNORECASE) does not raise re.error.
Compiles(regex) == regex # "("

\* pattern.search(line)
LineMatches(regex, line) == regex = "." \/ (regex = "route" /\ line = "route")

\* [l.rstrip("\n") for l in lines[a:b]], for 0 <= a and 0 <= b.
LinesSlice(lines, a, b) ==
    LET nums == Slice(Len(lines), a, b)
    IN  [x \in 1..Len(nums) |-> lines[nums[x]]]

\* The loop of _grep_file from line i on, found holding the matches so far.
RECURSIVE GrepLines(_, _, _, _, _, _, _)
GrepLines(path, lines, regex, ctx, lim, i, found) ==
    IF i > Len(lines) THEN found
    ELSE IF LineMatches(regex, lines[i])
    THEN LET start == Max(0, i - ctx - 1)
             end == Min(Len(lines), i + ctx)
             m == [file |-> path, line |-> i, match |-> lines[i],
                   before |-> LinesSlice(lines, start, i - 1),
                   after |-> LinesSlice(lines, i, end)]
             found1 == Append(found, m)
         IN  IF Len(found1) >= lim THEN found1
             ELSE GrepLines(path, lines, regex, ctx, lim, i + 1, found1)
    ELSE GrepLines(path, lines, regex, ctx, lim, i + 1, found)

\* Variant of grep_file: the re.error of a regex that does not compile
\* propagates to the caller.
grep_file_compile_raises(path, entry, regex, ctx, lim) ==
    IF ~Compiles(regex) \/ entry.isdir THEN [raised |-> TRUE, out |-> <<>>]
    ELSE [raised |-> FALSE,
          out |-> GrepLines(path, entry.lines, regex, ctx, lim, 1, <<>>)]

\* _grep_file: a regex that does not compile gives [] before the file is
\* opened; open() raises on a directory.
grep_file(path, entry, regex, ctx, lim) ==
    IF ~Compiles(regex) THEN [raised |-> FALSE, out |-> <<>>]
    ELSE IF entry.isdir THEN [raised |-> TRUE, out |-> <<>>]
    ELSE [raised |-> FALSE,
          out |-> GrepLines(path, entry.lines, regex, ctx, lim, 1, <<>>)]

\* glob.glob(os.path.join(repo_dir, q.glob), recursive=True): the positions
\* of the entries hit, in directory order.  "**/*" hits every entry,
\* directories included; "**/*.py" hits the regular files only.
Globs == {"**/*", "**/*.py"}

GlobHits(tree, pattern) ==
    SelectSeq([k \in 1..Len(tree) |-> k],
              LAMBDA k : pattern = "**/*" \/ ~tree[k].isdir)

\* The inner loop of multi_search over the entries fs, with acc and the
\* _grep_file calls made so far (entry and len(acc) at the call).
RECURSIVE ScanFiles(_, _, _, _, _, _, _)
ScanFiles(tree, fs, q, ctx, lim, acc, calls) ==
    IF fs = <<>> THEN [raised |-> FALSE, acc |-> acc, calls |-> calls]
    ELSE LET f == Head(fs)
             g == grep_file(f, tree[f], q.regex, ctx, lim)
             calls1 == Append(calls, [file |-> f, had |-> Len(acc)])
             acc1 == acc \o g.out
         IN  IF g.raised THEN [raised |-> TRUE, acc |-> acc, calls |-> calls1]
             ELSE IF Len(acc1) >= lim
             THEN [raised |-> FALSE, acc |-> acc1, calls |-> calls1]
             ELSE ScanFiles(tree, Tail(fs), q, ctx, lim, acc1, calls1)

\* One iteration of the outer loop of multi_search, for query q.
search_query(tree, q, ctx, lim) ==
    ScanFiles(tree, GlobHits(tree, q.glob), q, ctx, lim, <<>>, <<>>)

\* multi_search as a function of its arguments: [raised, results].
RECURSIVE multi_search(_, _, _, _)
multi_search(tree, qs, ctx, lim) ==
    IF qs = <<>> THEN [raised |-> FALSE, results |-> <<>>]
    ELSE LET n == Len(qs)
             rest == multi_search(tree, SubSeq(qs, 1, n - 1), ctx, lim)
             r == search_query(tree, qs[n], ctx, lim)
         IN  IF rest.raised \/ r.raised
             THEN [raised |-> TRUE, results |-> <<>>]
             ELSE [raised |-> FALSE,
                   results |-> rest.results @@ ((n - 1) :> r.acc)]

\* ------------------------------------------------------------------------
\* Specification SpecSearch: multi_search over a small repository
\* ------------------------------------------------------------------------
FileContents ==
    {<<"route">>, <<"text", "route">>, <<"route", "route">>}

Entries ==
    {[isdir |-> TRUE, lines |-> <<>>]}
    \cup {[isdir |-> FALSE, lines |-> c] : c \in FileContents}

Repos == UNION {[1..k -> Entries] : k \in 0..MaxFiles}

SearchQueries == [regex : Regexes, glob : Globs]

QueryLists == UNION {[1..k -> SearchQueries] : k \in 0..MaxQueries}

\* idx of the outer loop: the number of queries already stored.
idx == Cardinality(DOMAIN results)

SearchIdle ==
    /\ repo_dir = <<>> /\ queries = <<>> /\ context = 0 /\ limit = 1
    /\ results = <<>> /\ scanLog = <<>> /\ spc = "idle"

InitSearch ==
    /\ repo_dir \in Repos
    /\ queries \in QueryLists
    /\ context \in 0..1
    /\ limit \in 1..MaxLimit
    /\ results = <<>> /\ scanLog = <<>>
    /\ spc = "loop"

\* for idx, q in enumerate(queries): ... results[idx] = acc
SearchQuery ==
    /\ spc = "loop"
    /\ idx < Len(queries)
    /\ LET r == search_query(repo_dir, queries[idx + 1], context, limit)
       IN  /\ scanLog' = Append(scanLog, r.calls)
           /\ IF r.raised
              THEN spc' = "raised" /\ UNCHANGED results
              ELSE results' = results @@ (idx :> r.acc) /\ UNCHANGED spc
    /\ UNCHANGED <<repo_dir, queries, context, limit>>
    /\ UNCHANGED <<pathVars, snipVars, docVars, orchVars, xtrVars>>

\* return results
ReturnResults ==
    /\ spc = "loop"
    /\ idx = Len(queries)
    /\ spc' = "done"
    /\ UNCHANGED <<repo_dir, queries, context, limit, results, scanLog>>
    /\ UNCHANGED <<pathVars, snipVars, docVars, orchVars, xtrVars>>

\* ------------------------------------------------------------------------
\* core/llm.py
\* ------------------------------------------------------------------------

\* A completion of the model is described by how its text parses:
\* "direct" (json.loads succeeds), "recovered" (json.loads fails and the
\* first-brace-to-last-brace substring loads, which is always an object) or
\* "fail" (neither loads); json is the value loaded.
\* gemini_json returns it or raises.
gemini_json(key_set, reply) ==
    IF ~key_set THEN [raised |-> TRUE, detail |-> "GEMINI_API_KEY not set"]
    ELSE IF reply.parse = "fail"
    THEN [raised |-> TRUE, detail |-> "JSONDecodeError"]
    ELSE [raised |-> FALSE, json |-> reply.json]

\* plan_search: the object must carry well-formed searches.
plan_search(key_set, reply) ==
    LET g == gemini_json(key_set, reply)
    IN  IF g.raised THEN g
        ELSE IF ~g.json.fits
        THEN [raised |-> TRUE, detail |-> "ValidationError"]
        ELSE [raised |-> FALSE, searches |-> g.json.searches]

DiscoveredRouteFields == {"method", "raw_path", "file", "line", "evidence"}

\* DiscoveredRoute(**item) succeeds when the required fields are present.
Conforms(item) == DiscoveredRouteFields \subseteq DOMAIN item

\* Variant of extract_routes: the array is validated as a whole, and one
\* element that does not conform empties the batch.
extract_routes_whole_batch(key_set, reply) ==
    LET g == gemini_json(key_set, reply)
    IN  IF g.raised THEN g
        ELSE [raised |-> FALSE,
              out |-> IF g.json.isList
                         /\ \A x \in DOMAIN g.json.items :
                               Conforms(g.json.items[x])
                      THEN g.json.items
                      ELSE <<>>]

\* extract_routes: raw = gemini_json(...); the elements of a list for which
\* DiscoveredRoute(**item) does not raise, in order.
extract_routes(key_set, reply) ==
    LET g == gemini_json(key_set, reply)
    IN  IF g.raised THEN g
        ELSE [raised |-> FALSE,
              out |-> IF g.json.isList
                      THEN SelectSeq(g.json.items, Conforms)
                      ELSE <<>>]

\* Enrichment(summary=None, auth=None, requestBody=None, responses=None)
NullEnrichment ==
    [summary |-> None, auth |-> None, requestBody |-> None, responses |-> None]

\* enrich_route: gemini_json is called outside the try block; only
\* Enrichment(**data) is guarded.
enrich_route(key_set, reply) ==
    LET g == gemini_json(key_set, reply)
    IN  IF g.raised THEN g
        ELSE IF ~g.json.fits
        THEN [raised |-> FALSE, enr |-> NullEnrichment]
        ELSE [raised |-> FALSE, enr |-> g.json.data]

\* ------------------------------------------------------------------------
\* Inputs of POST /generate: completions and search results
\* ------------------------------------------------------------------------
FailReply == [parse |-> "fail"]

PlanReplies ==
    {FailReply, [parse |-> "direct", json |-> [fits |-> FALSE, searches |-> 0]]}
    \cup {[parse |-> y, json |-> [fits |-> TRUE, searches |-> n]] :
            y \in {"direct", "recovered"}, n \in 0..MaxQueries}

\* len(FALLBACK_QUERIES)
NumFallback == 9

\* What multi_search can return for n queries: a match count per query
\* index.  For the fallback set at most the first two queries hit.
SearchResults(n) ==
    {f \in [0..(n - 1) -> 0..MaxHits] : \A k \in 2..(n - 1) : f[k] = 0}

RECURSIVE SumCounts(_, _)
SumCounts(f, n) == IF n = 0 THEN 0 ELSE f[n - 1] + SumCounts(f, n - 1)

\* sum(len(v) for v in matches.values())
TotalMatches(f) == SumCounts(f, Cardinality(DOMAIN f))

RouteItems ==
    { [method |-> "get", raw_path |-> <<"/", "a">>, file |-> "app.js",
       line |-> 1, evidence |-> <<"e">>],
      [method |-> "GET", raw_path |-> <<"/", ":", "a">>, file |-> "app.js",
       line |-> 1, evidence |-> <<"e">>],
      [method |-> "get", file |-> "app.js"] }

ItemLists == UNION {[1..k -> RouteItems] : k \in 0..MaxRoutes}

ExtractReplies ==
    {FailReply,
     [parse |-> "recovered", json |-> [isList |-> FALSE, items |-> <<>>]]}
    \cup {[parse |-> "direct", json |-> [isList |-> TRUE, items |-> l]] :
            l \in ItemLists}

EnrichmentData ==
    { NullEnrichment,
      [summary |-> Some(<<"s">>), auth |-> Some("none"),
       requestBody |-> Some(SchemaBad),
       responses |-> Some("200" :> [description |-> "OK", schema |-> SchemaBad])],
      [summary |-> None, auth |-> None, requestBody |-> None,
       responses |-> Some("200" :> [description |-> "OK",
                                    content |-> JsonContent(SchemaBad)])],
      [summary |-> None, auth |-> None, requestBody |-> Some(SchemaBad),
       responses |-> Some("200" :> JsonNull)] }

EnrichReplies ==
    {FailReply,
     [parse |-> "direct", json |-> [fits |-> FALSE, data |-> NullEnrichment]]}
    \cup {[parse |-> "direct", json |-> [fits |-> TRUE, data |-> d]] :
            d \in EnrichmentData}

\* ------------------------------------------------------------------------
\* app.py: post_generate
\* ------------------------------------------------------------------------

\* except Exception as e: raise HTTPException(status_code=500, detail=str(e))
Fail(stage, detail) ==
    /\ pc' = "error"
    /\ error' = Some([status_code |-> 500, stage |-> stage, detail |-> detail])

\* Variant of needs_fallback: some query has no match.
needs_fallback_any_empty(m) == \E k \in DOMAIN m : m[k] = 0

\* if sum(len(v) for v in matches.values()) == 0
needs_fallback(m) == TotalMatches(m) = 0

\* rounds_used=1 + int(used_fallback)
rounds_used(fb) == 1 + (IF fb THEN 1 ELSE 0)

\* Variant of after_validate: the downgrade runs whatever the outcome.
after_validate_always(v) == "downgrade"

\* if not valid: ... (the step after the first validation)
after_validate(v) == IF v THEN "export" ELSE "downgrade"

\* the notes appended after the second validation
revalidate_notes(v2) ==
    IF ~v2 THEN <<"Spec still invalid after downgrade; check logs.">>
    ELSE <<"Some schemas downgraded to permissive object.">>

StepNotes ==
    <<"Step 1 complete: repo cloned and indexed.",
      "Step 2 complete: planned searches and ran regex.",
      "Step 3 complete: extracted endpoints with evidence.",
      "Step 4 complete: assembled and validated OpenAPI spec.">>

\* routes[: req.options.max_routes]
Selected == SubSeq(routes, 1, Min(Len(routes), max_routes))

\* The RouteDef(...).model_dump() built in the loop for route r and
\* enrichment enr.
route_def(r, enr) ==
    LET n == normalize_path(r.raw_path)
    IN  [method |-> r.method, path |-> n,
         parameters |-> extract_path_params(n),
         requestBody |-> enr.requestBody,
         responses |-> IF enr.responses # None /\ enr.responses[1] # <<>>
                       THEN enr.responses[1]
                       ELSE "200" :> [description |-> "OK"],
         summary |-> enr.summary,
         auth |-> enr.auth,
         evidence |-> [file |-> r.file, line |-> r.line, quotes |-> r.evidence]]

OrchIdle ==
    /\ pc = "idle" /\ api_key = TRUE /\ max_routes = 0 /\ plan = None
    /\ matches = <<>> /\ used_fallback = FALSE /\ searchLog = <<>>
    /\ extractArg = None /\ routes = <<>> /\ ridx = 0 /\ enrichLog = <<>>
    /\ valid = <<>>
    /\ downgrades = 0 /\ notes_extra = <<>> /\ persisted = None
    /\ out_file = "absent" /\ response = None /\ error = None

InitGenerate ==
    /\ pc = "clone"
    /\ api_key \in BOOLEAN
    /\ max_routes \in {1, MaxRoutes}
    /\ plan = None /\ matches = <<>> /\ used_fallback = FALSE
    /\ searchLog = <<>> /\ extractArg = None /\ routes = <<>> /\ ridx = 0
    /\ enrichLog = <<>>
    /\ valid = <<>> /\ downgrades = 0 /\ notes_extra = <<>>
    /\ persisted = None /\ out_file = "absent"
    /\ response = None /\ error = None
    /\ doc = build_openapi_skeleton /\ mergeLog = <<>> /\ dpc = "idle"

\* Step 1: clone_repo and build_inventory (app.py 42-48).
CloneAndIndex ==
    /\ pc = "clone"
    /\ \/ pc' = "plan" /\ UNCHANGED error
       \/ Fail("clone", "GitCommandError")
    /\ UNCHANGED <<pathVars, snipVars, srchVars, xtrVars>>
    /\ UNCHANGED <<api_key, max_routes, enrichLog, plan, matches, used_fallback,
                   searchLog, extractArg, routes, ridx, valid, downgrades,
                   notes_extra, persisted, out_file, response, docVars>>

\* plan = plan_search(inv) (app.py 51).
PlanSearch ==
    /\ pc = "plan"
    /\ \E reply \in PlanReplies :
          LET r == plan_search(api_key, reply)
          IN  IF r.raised
              THEN Fail("plan", r.detail) /\ UNCHANGED plan
              ELSE pc' = "search" /\ plan' = Some(r.searches) /\ UNCHANGED error
    /\ UNCHANGED <<pathVars, snipVars, srchVars, xtrVars>>
    /\ UNCHANGED <<api_key, max_routes, enrichLog, matches, used_fallback, searchLog,
                   extractArg, routes, ridx, valid, downgrades, notes_extra,
                   persisted, out_file, response, docVars>>

\* matches = multi_search(repo_dir, plan.searches, ...); used_fallback = False
\* (app.py 52-56).
Search ==
    /\ pc = "search"
    /\ \/ \E res \in SearchResults(plan[1]) :
            /\ matches' = res
            /\ searchLog' = Append(searchLog, [queries |-> "planned", result |-> res])
            /\ used_fallback' = FALSE
            /\ pc' = "check"
            /\ UNCHANGED error
       \/ /\ Fail("search", "OSError")
          /\ UNCHANGED <<matches, searchLog, used_fallback>>
    /\ UNCHANGED <<pathVars, snipVars, srchVars, xtrVars>>
    /\ UNCHANGED <<api_key, max_routes, enrichLog, plan, extractArg, routes, ridx, valid,
                   downgrades, notes_extra, persisted, out_file, response, docVars>>

\* if sum(...) == 0: used_fallback = True; matches = multi_search(repo_dir,
\* FALLBACK_QUERIES, ...) (app.py 57-61).
FallbackSearch ==
    /\ pc = "check"
    /\ needs_fallback(matches)
    /\ \/ \E res \in SearchResults(NumFallback) :
            /\ matches' = res
            /\ searchLog' = Append(searchLog, [queries |-> "fallback", result |-> res])
            /\ used_fallback' = TRUE
            /\ pc' = "extract"
            /\ UNCHANGED error
       \/ /\ Fail("search", "OSError")
          /\ used_fallback' = TRUE
          /\ UNCHANGED <<matches, searchLog>>
    /\ UNCHANGED <<pathVars, snipVars, srchVars, xtrVars>>
    /\ UNCHANGED <<api_key, max_routes, enrichLog, plan, extractArg, routes, ridx, valid,
                   downgrades, notes_extra, persisted, out_file, response, docVars>>

\* The condition of app.py 57 is false.
SkipFallback ==
    /\ pc = "check"
    /\ ~needs_fallback(matches)
    /\ pc' = "extract"
    /\ UNCHANGED <<pathVars, snipVars, srchVars, xtrVars>>
    /\ UNCHANGED <<api_key, max_routes, enrichLog, plan, matches, used_fallback,
                   searchLog, extractArg, routes, ridx, valid, downgrades,
                   notes_extra, persisted, out_file, response, error, docVars>>

\* routes = extract_routes(matches); spec = build_openapi_skeleton(...);
\* merged = 0 (app.py 64-70).
ExtractRoutes ==
    /\ pc = "extract"
    /\ extractArg' = Some(matches)
    /\ \E reply \in ExtractReplies :
          LET r == extract_routes(api_key, reply)
          IN  IF r.raised
              THEN Fail("extract", r.detail) /\ UNCHANGED <<routes, ridx, doc>>
              ELSE /\ routes' = r.out
                   /\ ridx' = 1
                   /\ doc' = build_openapi_skeleton
                   /\ pc' = "loop"
                   /\ UNCHANGED error
    /\ UNCHANGED <<pathVars, snipVars, srchVars, xtrVars>>
    /\ UNCHANGED <<api_key, max_routes, enrichLog, plan, matches, used_fallback,
                   searchLog, valid, downgrades, notes_extra, persisted, out_file,
                   response, mergeLog, dpc>>

\* One iteration of the loop (app.py 71-89): normalize_path,
\* extract_path_params, read_snippet, enrich_route, RouteDef, merge_route.
EnrichAndMerge ==
    /\ pc = "loop"
    /\ ridx <= Len(Selected)
    /\ \/ /\ Fail("snippet", "FileNotFoundError")
          /\ UNCHANGED <<ridx, doc, mergeLog, enrichLog>>
       \/ \E reply \in EnrichReplies :
            LET e == enrich_route(api_key, reply)
            IN  /\ enrichLog' = Append(enrichLog, [reply |-> reply, result |-> e])
                /\ IF e.raised
                   THEN Fail("enrich", e.detail) /\ UNCHANGED <<ridx, doc, mergeLog>>
                   ELSE LET rd == route_def(Selected[ridx], e.enr)
                        IN  /\ doc' = merge_route(doc, rd)
                            /\ mergeLog' = Append(mergeLog, rd)
                            /\ ridx' = ridx + 1
                            /\ UNCHANGED <<pc, error>>
    /\ UNCHANGED <<pathVars, snipVars, srchVars, xtrVars>>
    /\ UNCHANGED <<api_key, max_routes, plan, matches, used_fallback,
                   searchLog, extractArg, routes, valid, downgrades,
                   notes_extra, persisted, out_file, response, dpc>>

\* valid, errors = validate_openapi(spec); notes_extra = []; if not valid
\* (app.py 91-93).  validate_spec belongs to a library: either outcome.
Validate ==
    /\ pc = "loop"
    /\ ridx > Len(Selected)
    /\ \E v \in BOOLEAN :
          /\ valid' = Append(valid, v)
          /\ pc' = after_validate(v)
    /\ notes_extra' = <<>>
    /\ UNCHANGED <<pathVars, snipVars, srchVars, xtrVars>>
    /\ UNCHANGED <<api_key, max_routes, enrichLog, plan, matches, used_fallback,
                   searchLog, extractArg, routes, ridx, downgrades, persisted, out_file,
                   response, error, docVars>>

\* _downgrade_schemas(spec) (app.py 94).
Downgrade ==
    /\ pc = "downgrade"
    /\ downgrades' = downgrades + 1
    /\ LET r == downgrade_schemas(doc)
       IN  /\ doc' = r.spec
           /\ IF r.raised
              THEN Fail("downgrade", "TypeError")
              ELSE pc' = "revalidate" /\ UNCHANGED error
    /\ UNCHANGED <<pathVars, snipVars, srchVars, xtrVars>>
    /\ UNCHANGED <<api_key, max_routes, enrichLog, plan, matches, used_fallback,
                   searchLog, extractArg, routes, ridx, valid, notes_extra,
                   persisted, out_file, response, mergeLog, dpc>>

\* valid2, _ = validate_openapi(spec) and the note (app.py 95-103).
Revalidate ==
    /\ pc = "revalidate"
    /\ \E v2 \in BOOLEAN :
          /\ valid' = Append(valid, v2)
          /\ notes_extra' = notes_extra \o revalidate_notes(v2)
    /\ pc' = "export"
    /\ UNCHANGED <<pathVars, snipVars, srchVars, xtrVars>>
    /\ UNCHANGED <<api_key, max_routes, enrichLog, plan, matches, used_fallback,
                   searchLog, extractArg, routes, ridx, downgrades, persisted, out_file,
                   response, error, docVars>>

\* The GenerateResponse of app.py 109-141.
generate_response ==
    [status |-> "ok",
     spec_path |-> "openapi.generated.json",
     routes_found |-> Len(routes),
     rounds_used |-> rounds_used(used_fallback),
     skipped |-> [files |-> 0, routes |-> Max(0, Len(routes) - Len(mergeLog))],
     notes |-> StepNotes \o notes_extra,
     report |-> [searches |-> IF used_fallback THEN "fallback" ELSE "planned",
                 matches_counts |-> matches,
                 paths_count |-> Cardinality(DOMAIN doc.paths)]]

\* How far export_spec gets: os.makedirs or open raises ("unopened"),
\* json.dump or the close of the file raises after open(out_path, "w") has
\* created the file ("partial"), or the function returns ("complete").
ExportOutcomes == {"unopened", "partial", "complete"}

\* spec_path = export_spec(...); return GenerateResponse(...)
\* (app.py 105-141).
ExportAndRespond ==
    /\ pc = "export"
    /\ \E outcome \in ExportOutcomes :
          IF outcome = "complete"
          THEN /\ persisted' = Some(doc)
               /\ out_file' = "complete"
               /\ response' = Some(generate_response)
               /\ pc' = "done"
               /\ UNCHANGED error
          ELSE /\ Fail("export", "OSError")
               /\ out_file' = IF outcome = "partial" THEN "partial" ELSE out_file
               /\ UNCHANGED <<persisted, response>>
    /\ UNCHANGED <<pathVars, snipVars, srchVars, xtrVars>>
    /\ UNCHANGED <<api_key, max_routes, enrichLog, plan, matches, used_fallback,
                   searchLog, extractArg, routes, ridx, valid, downgrades,
                   notes_extra, docVars>>

\* ------------------------------------------------------------------------
\* Specification SpecExtract: extract_routes on a completion, and the merge
\* of the routes it returns
\* ------------------------------------------------------------------------

\* The elements a JSON array of the completion can hold: the route items,
\* one whose method is no HTTP method, and JSON null.  An element that
\* pydantic rejects for any reason (a field missing, a value of the wrong
\* type, no object at all) takes the same except branch; the model has the
\* first and the last kind.
ArrayItems ==
    RouteItems
    \cup { [method |-> "foo", raw_path |-> <<"/", "a">>, file |-> "app.js",
            line |-> 1, evidence |-> <<"e">>],
           JsonNull }

ArrayLists == UNION {[1..k -> ArrayItems] : k \in 0..MaxItems}

ArrayReplies ==
    {FailReply,
     [parse |-> "recovered", json |-> [isList |-> FALSE, items |-> <<>>]],
     [parse |-> "direct", json |-> [isList |-> FALSE, items |-> <<>>]]}
    \cup {[parse |-> "direct", json |-> [isList |-> TRUE, items |-> l]] :
            l \in ArrayLists}

ExtractIdle ==
    /\ completion = FailReply /\ extracted = None /\ xpc = "idle"

InitExtract ==
    /\ completion \in ArrayReplies
    /\ extracted = None
    /\ xpc = "call"

\* routes = extract_routes(matches), with the credential configured.
CallExtractRoutes ==
    /\ xpc = "call"
    /\ extracted' = Some(extract_routes(TRUE, completion))
    /\ xpc' = "returned"
    /\ UNCHANGED completion
    /\ UNCHANGED <<pathVars, snipVars, docVars, orchVars, srchVars>>

\* One iteration of the loop of app.py 71-89 on the next route returned,
\* with the all-null enrichment.
MergeExtracted ==
    /\ xpc = "returned"
    /\ ~extracted[1].raised
    /\ Len(mergeLog) < Len(extracted[1].out)
    /\ LET rd == route_def(extracted[1].out[Len(mergeLog) + 1], NullEnrichment)
       IN  /\ doc' = merge_route(doc, rd)
           /\ mergeLog' = Append(mergeLog, rd)
    /\ UNCHANGED <<completion, extracted, xpc, dpc>>
    /\ UNCHANGED <<pathVars, snipVars, orchVars, srchVars>>

\* ------------------------------------------------------------------------
\* Specifications
\* ------------------------------------------------------------------------
NextPath == Normalize \/ Renormalize \/ ExtractParams

PathInit == InitPath /\ SnipIdle /\ DocIdle /\ OrchIdle /\ SearchIdle /\ ExtractIdle

SpecPath == PathInit /\ [][NextPath]_vars

NextSnippet == ReadSnippet

SnippetInit == InitSnippet /\ PathIdle /\ DocIdle /\ OrchIdle /\ SearchIdle /\ ExtractIdle

SpecSnippet == SnippetInit /\ [][NextSnippet]_vars

NextDoc == MergeRoute \/ DowngradeSchemas

DocInit == InitDoc /\ PathIdle /\ SnipIdle /\ OrchIdle /\ SearchIdle /\ ExtractIdle

SpecDoc == DocInit /\ [][NextDoc]_vars

NextSearch == SearchQuery \/ ReturnResults

SearchInit ==
    InitSearch /\ PathIdle /\ SnipIdle /\ DocIdle /\ OrchIdle /\ ExtractIdle

SpecSearch == SearchInit /\ [][NextSearch]_vars

NextExtract == CallExtractRoutes \/ MergeExtracted

ExtractInit ==
    InitExtract /\ PathIdle /\ SnipIdle /\ DocIdle /\ OrchIdle /\ SearchIdle

SpecExtract == ExtractInit /\ [][NextExtract]_vars

Init == InitGenerate /\ PathIdle /\ SnipIdle /\ SearchIdle /\ ExtractIdle

Next ==
    \/ CloneAndIndex \/ PlanSearch \/ Search \/ FallbackSearch \/ SkipFallback
    \/ ExtractRoutes \/ EnrichAndMerge \/ Validate \/ Downgrade
    \/ Revalidate \/ ExportAndRespond

Spec == Init /\ [][Next]_vars

\* ------------------------------------------------------------------------
\* Properties
\* ------------------------------------------------------------------------

\* C1: normalize_path is idempotent: normalising an already normalised path
\* returns it unchanged, for every raw path.
C1_Idempotent == ppc = "renorm" => renorm = norm

\* C2: normalize_path rewrites every typed angle-bracket segment
\* <type:name> to the brace form {name}, using only the name: a path written
\* from segments of which one is typed normalises to its brace template.
C2_TypedToBrace ==
    (ppc = "norm" /\ \E x \in DOMAIN segs : segs[x].kind = "typed")
        => norm = BraceForm(segs)

\* The operation the most recent merge for key k must have left at k.
LastMerged(k) ==
    LET hits == {x \in DOMAIN mergeLog :
                    <<mergeLog[x].path, Lower(mergeLog[x].method)>> = k}
    IN  IF hits = {} THEN None
        ELSE Some(mergeLog[CHOOSE x \in hits : \A y \in hits : y <= x])

ReflectsRoute(op, route) ==
    /\ op.parameters = route.parameters
    /\ op.responses = IF route.responses = <<>>
                      THEN "200" :> default_response
                      ELSE route.responses
    /\ op.summary = IF route.summary \in {None, Some(<<>>)}
                    THEN <<Upper(route.method), " ">> \o route.path
                    ELSE route.summary[1]
    /\ ("requestBody" \in DOMAIN op) = (route.requestBody # None)
    /\ route.requestBody # None =>
          op.requestBody.content["application/json"].schema
              = route.requestBody[1]

\* C3: after any sequence of merge_route calls the document holds exactly
\* one operation per (path, lower-cased method) pair that was merged, and it
\* reflects the data of the most recent merge for that pair.
C3_LastWriteWins ==
    dpc = "open" =>
        /\ DOMAIN doc.paths = {mergeLog[x].path : x \in DOMAIN mergeLog}
        /\ \A p \in DOMAIN doc.paths :
              /\ DOMAIN doc.paths[p] =
                    {Lower(mergeLog[x].method) :
                        x \in {y \in DOMAIN mergeLog : mergeLog[y].path = p}}
              /\ \A m \in DOMAIN doc.paths[p] :
                    ReflectsRoute(doc.paths[p][m], LastMerged(<<p, m>>)[1])

\* Two merges hit the same (path, method) pair, spelled in different case
\* and carrying different data.
C3_Witness ==
    /\ dpc = "open" /\ Len(mergeLog) = 2 /\ Len(doc.order) = 1
    /\ mergeLog[1].method # mergeLog[2].method
    /\ mergeLog[1].responses # mergeLog[2].responses
    /\ mergeLog[1].requestBody # mergeLog[2].requestBody

\* C4: the fallback search runs if and only if the planned queries yield
\* zero matches in total; when it runs, search is re-invoked exactly once with
\* FALLBACK_QUERIES, the planned matches are discarded, extract_routes
\* receives the fallback matches and rounds_used is 2; otherwise the planned
\* matches are extracted and rounds_used is 1.
C4_FallbackIffNoMatches ==
    LET n == Len(searchLog)
        none == TotalMatches(searchLog[1].result) = 0
    IN  /\ n <= 2
        /\ \A x \in 1..n :
              searchLog[x].queries = IF x = 1 THEN "planned" ELSE "fallback"
        /\ n = 2 => none
        /\ pc \in {"extract", "loop", "downgrade", "revalidate", "export", "done"}
              => /\ (n = 2) = none
                 /\ used_fallback = none
                 /\ matches = searchLog[n].result
        /\ extractArg # None
              => /\ (n = 2) = none
                 /\ extractArg[1] = searchLog[IF none THEN 2 ELSE 1].result
        /\ response # None
              => response[1].rounds_used = IF none THEN 2 ELSE 1

\* Planned queries existed and matched nothing, the fallback set found
\* matches, and the response reports two rounds.
C4_Witness ==
    /\ response # None /\ response[1].rounds_used = 2
    /\ Len(searchLog) = 2 /\ plan[1] >= 1
    /\ TotalMatches(extractArg[1]) > 0
    /\ extractArg[1] = searchLog[2].result

\* C5: read_snippet never returns an out-of-bounds range: for a file of
\* L >= 1 lines, a center line >= 1 and a radius >= 0 the result satisfies
\* 1 <= start <= end <= L, start = max(1, center - radius) and
\* end = min(L, center + radius).
C5_SnippetInBounds ==
    (snippet # None /\ nlines >= 1 /\ center >= 1) =>
        LET s == snippet[1]
        IN  /\ 1 <= s.start /\ s.start <= s.end /\ s.end <= nlines
            /\ s.start = Max(1, center - radius)
            /\ s.end = Min(nlines, center + radius)

\* The schema values a response object carries.
ResponseSchemas(resp) ==
    (IF "schema" \in DOMAIN resp THEN {resp.schema} ELSE {})
    \cup (IF "content" \in DOMAIN resp
              /\ "application/json" \in DOMAIN resp.content
          THEN {resp.content["application/json"].schema} ELSE {})

\* C6: after _downgrade_schemas has run on a document assembled by
\* merge_route, every request-body schema and every response schema of the
\* document is the permissive object.
C6_AllSchemasPermissive ==
    dpc = "downgraded" =>
        \A p \in DOMAIN doc.paths : \A m \in DOMAIN doc.paths[p] :
            LET op == doc.paths[p][m]
            IN  /\ "requestBody" \in DOMAIN op =>
                      op.requestBody.content["application/json"].schema
                          = Permissive
                /\ \A c \in DOMAIN op.responses :
                      \A sc \in ResponseSchemas(op.responses[c]) :
                          sc = Permissive

\* The document the merges of the loop produce.
RECURSIVE MergeAll(_)
MergeAll(log) ==
    IF log = <<>> THEN build_openapi_skeleton
    ELSE merge_route(MergeAll(SubSeq(log, 1, Len(log) - 1)), log[Len(log)])

C8_NeverBlocks ==
    /\ pc = "error" => error[1].stage \notin {"validate", "downgrade", "revalidate"}
    /\ response # None
          => /\ response[1].status = "ok"
             /\ persisted # None
             /\ (Len(valid) = 2 /\ ~valid[2])
                   => \E x \in DOMAIN response[1].notes :
                         response[1].notes[x]
                             = "Spec still invalid after downgrade; check logs."

\* A completion is bad when it is not recoverable JSON or does not fit the
\* Enrichment shape.
BadReply(reply) == reply.parse = "fail" \/ ~reply.json.fits

\* C9: enrich_route never raises on a bad completion: on a parse failure or
\* a validation failure it returns the all-null Enrichment, so the request
\* is not aborted in enrichment.
C9_EnrichNeverRaises ==
    /\ \A x \in DOMAIN enrichLog :
          BadReply(enrichLog[x].reply)
              => /\ ~enrichLog[x].result.raised
                 /\ enrichLog[x].result.enr = NullEnrichment
    /\ pc = "error" => error[1].stage # "enrich"

\* C10: extract_path_params returns one descriptor per brace-delimited name
\* of the normalised path, in left-to-right order, without reordering or
\* deduplicating, each with in = path, required = true and schema type
\* string.
C10_ParamsInOrder ==
    (ppc = "params" /\ segs # <<>> /\ norm = BraceForm(segs)) =>
        LET names == SegNames(segs)
        IN  params = [x \in 1..Len(names) |->
                        [name |-> names[x], in |-> "path", required |-> TRUE,
                         schema |-> [type |-> "string"]]]

\* A raw path in framework syntax whose template names the same parameter
\* twice, after another one.
C10_Witness ==
    /\ ppc = "params" /\ segs # <<>> /\ norm = BraceForm(segs)
    /\ raw_path # norm
    /\ Len(params) = 3
    /\ params[1].name # params[2].name
    /\ params[2].name = params[3].name

\* C11: for every raw path (empty, whitespace-padded, slash-less and
\* multi-slash inputs included) the result of normalize_path starts with "/"
\* and holds no two consecutive "/" characters.
C11_LeadingSlashNoDouble ==
    ppc \in {"norm", "renorm", "params"} =>
        /\ norm # <<>>
        /\ norm[1] = "/"
        /\ \A x \in 1..(Len(norm) - 1) : ~(norm[x] = "/" /\ norm[x + 1] = "/")

\* A padded raw path that does not start with "/" and holds a run of three
\* slashes has been normalised.
C11_Witness ==
    /\ ppc = "norm" /\ segs = <<>>
    /\ Len(raw_path) = MaxLen
    /\ raw_path[1] = " " /\ raw_path[2] \notin {" ", "/"}
    /\ \E x \in 1..(Len(raw_path) - 2) :
          raw_path[x] = "/" /\ raw_path[x + 1] = "/" /\ raw_path[x + 2] = "/"

\* C12: merge_route on a route definition whose responses are absent or
\* empty (None and {} are both the empty value here) leaves an operation
\* whose responses map has exactly the key "200", and its value is an OK
\* response with the application/json schema
\* {type: object, additionalProperties: true}.
C12_DefaultResponse ==
    (dpc = "open" /\ mergeLog # <<>> /\ mergeLog[Len(mergeLog)].responses = <<>>)
        => LET route == mergeLog[Len(mergeLog)]
               op == doc.paths[route.path][Lower(route.method)]
           IN  /\ DOMAIN op.responses = {"200"}
               /\ DOMAIN op.responses["200"] = {"description", "content"}
               /\ op.responses["200"].description = "OK"
               /\ DOMAIN op.responses["200"].content = {"application/json"}
               /\ op.responses["200"].content["application/json"]
                     = [schema |-> [type |-> "object",
                                    additionalProperties |-> TRUE]]

\* A route without responses has been merged over an operation of the same
\* key that carried a 404 response.
C12_Witness ==
    /\ dpc = "open" /\ Len(mergeLog) = 2 /\ Len(doc.order) = 1
    /\ DOMAIN mergeLog[1].responses = {"404"}
    /\ mergeLog[2].responses = <<>>

\* C13: the request fails closed: when a stage of the pipeline raises
\* (repository acquisition, planning, search, extraction, snippet reading,
\* enrichment, export) the caller receives a 500 error carrying the
\* exception's message, no GenerateResponse is returned and no specification
\* file has been persisted by the request.
C13_FailsClosed ==
    /\ (error # None) = (pc = "error")
    /\ pc = "error" =>
          /\ error[1].status_code = 500
          /\ error[1].detail \in {"GitCommandError", "GEMINI_API_KEY not set",
                                  "JSONDecodeError", "ValidationError",
                                  "OSError", "FileNotFoundError", "TypeError"}
          /\ response = None
          /\ persisted = None
          /\ out_file = "absent"

\* C14: multi_search enforces the per-query cap: for every query, every
\* set of matched files and every limit >= 1, the matches stored for a query
\* number at most limit, and no file is handed to _grep_file for a query once
\* its matches have reached limit.
C14_PerQueryCap ==
    /\ \A k \in DOMAIN results : Len(results[k]) <= limit
    /\ \A x \in DOMAIN scanLog :
          \A y \in DOMAIN scanLog[x] : scanLog[x][y].had < limit

\* An array element that has the DiscoveredRoute shape.
WellShaped(item) ==
    {"method", "raw_path", "file", "line", "evidence"} \subseteq DOMAIN item

\* C15: extract_routes has partial-success semantics: given a completion
\* that is a JSON array it returns exactly the elements that conform to the
\* DiscoveredRoute shape, in their original order; an element that does not
\* conform is dropped on its own and neither fails the batch nor loses a
\* conforming element.
C15_PartialSuccess ==
    (extracted # None /\ completion.parse = "direct" /\ completion.json.isList)
        => LET items == completion.json.items
               keep == {x \in DOMAIN items : WellShaped(items[x])}
               nth(y) == CHOOSE x \in keep :
                            Cardinality({z \in keep : z <= x}) = y
           IN  /\ ~extracted[1].raised
               /\ Len(extracted[1].out) = Cardinality(keep)
               /\ \A y \in 1..Cardinality(keep) :
                     extracted[1].out[y] = items[nth(y)]

\* An array of a conforming element, JSON null and a different conforming
\* element has been extracted.
C15_Witness ==
    /\ extracted # None /\ completion.parse = "direct" /\ completion.json.isList
    /\ Len(completion.json.items) = 3
    /\ WellShaped(completion.json.items[1])
    /\ completion.json.items[2] = JsonNull
    /\ WellShaped(completion.json.items[3])
    /\ completion.json.items[1] # completion.json.items[3]
    /\ Len(extracted[1].out) = 2

\* The methods the DiscoveredRoute shape allows.
HttpMethods ==
    {"get", "post", "put", "patch", "delete", "options", "head", "all"}

\* C16: every DiscoveredRoute returned by extract_routes, and so every
\* method key merged into the document, has a method that is one of get,
\* post, put, patch, delete, options, head, all, compared without case; an
\* element with any other method string is rejected by validation.
C16_MethodsAreHttp ==
    /\ (extracted # None /\ ~extracted[1].raised)
          => \A y \in DOMAIN extracted[1].out :
                Lower(extracted[1].out[y].method) \in HttpMethods
    /\ \A p \in DOMAIN doc.paths : DOMAIN doc.paths[p] \subseteq HttpMethods

\* C17: a regex that does not compile gives the empty match list for its own
\* query only: whenever the search without the malformed queries returns,
\* multi_search returns too, the keys of the mapping are exactly the query
\* indices 0..n-1, and every other query has the matches it has in the
\* search without the malformed queries.
C17_MalformedIsolated ==
    LET bad == {x \in DOMAIN queries : ~Compiles(queries[x].regex)}
        good == SelectSeq(queries, LAMBDA q : Compiles(q.regex))
        ref == multi_search(repo_dir, good, context, limit)
        rank(x) == Cardinality({z \in 1..x : z \notin bad})
    IN  bad # {} =>
          /\ spc = "raised" => ref.raised
          /\ spc = "done" => /\ ~ref.raised
                             /\ DOMAIN results = 0..(Len(queries) - 1)
          /\ \A k \in DOMAIN results :
                (k + 1) \in bad => results[k] = <<>>
          /\ ~ref.raised =>
                \A k \in DOMAIN results :
                   (k + 1) \notin bad
                      => results[k] = ref.results[rank(k + 1) - 1]

\* A search has returned whose first query does not compile and globs a
\* directory, and whose second query found matches.
C17_Witness ==
    /\ spc = "done" /\ Len(queries) = 2
    /\ ~Compiles(queries[1].regex) /\ queries[1].glob = "**/*"
    /\ \E k \in DOMAIN repo_dir : repo_dir[k].isdir
    /\ Compiles(queries[2].regex)
    /\ results[0] = <<>> /\ results[1] # <<>>

====
